---- MODULE Spec2Model ----
(***************************************************************************)
(* kickIT: orbit integration of tracer binaries (system.py).               *)
(*                                                                         *)
(* Two levels are modelled.                                                *)
(*   - integrate_orbits (system.py 456-705): the per-system loop over the  *)
(*     epochs of the potential sequence, with its three ways out (merger,  *)
(*     last epoch reached, wall-clock budget) and the early return for a   *)
(*     disrupted system.  Specification Spec runs one call step by step.   *)
(*   - Systems.evolve (system.py 330-430): the driver that calls           *)
(*     integrate_orbits for every system, serially or through a            *)
(*     multiprocessing pool.  Specification SpecEvolve runs one call of    *)
(*     evolve, SpecCompare a serial and a parallel call on one ensemble.   *)
(*                                                                         *)
(* galpy's integrator is a deterministic function of the seed, the step    *)
(* length and the potential; it is kept uninterpreted: a phase-space point *)
(* is the system's initial condition followed by the segments integrated   *)
(* since.  Times are integers, all multiples of the natural time unit, so  *)
(* that the cgs <-> natural scaling is exact as it is over the reals.      *)
(***************************************************************************)
EXTENDS Integers, Sequences, FiniteSets, TLC

VARIABLES
    cfg,        \* the arguments shared by every integrate_orbits call, and gal.interp
    task,       \* the locals of the integrate_orbits call that Spec follows
    systems,    \* systems_info of Systems.evolve (SpecEvolve, SpecCompare)
    ev          \* the calls of Systems.evolve under way, one record per call

vars == <<cfg, task, systems, ev>>

---------------------------------------------------------------------------
(* Bounds of the model *)

\* T = len(gal.times), the number of epochs of the potential sequence
NEpochs == 3

\* Nsys, the size of the ensemble given to Systems.evolve
Nsys == 2

\* the largest worker count given as multiproc
MaxWorkers == 2

---------------------------------------------------------------------------
(* The collaborators: unit system, galaxy history, cosmology *)

\* system.py converts with utils.Tcgs_to_nat, utils.Tnat_to_cgs,
\* utils.orbit_cgs_to_nat and utils.orbit_nat_to_cgs; utils.py holds the
\* converters of the physical units only (Tphys_to_nat, ..., lines 205-250).
\* The cgs converters are taken as the unit converter of the specification:
\* the exact rescaling by the reference length ro and velocity vo, each the
\* inverse of the other.

\* to = ro/vo, the natural time unit, in model cgs ticks
TimeUnit == 2

\* utils.Tcgs_to_nat: a cgs time in natural units
Tcgs_to_nat(t) == t \div TimeUnit

\* utils.Tnat_to_cgs: a natural time in cgs
Tnat_to_cgs(t) == t * TimeUnit

\* gal.times: increasing cosmic ages of the epochs, with unequal intervals
times == [k \in 0..(NEpochs - 1) |-> TimeUnit * (1 + (k * (k + 3)) \div 2)]

\* the total time span of the potential sequence
TotalSpan == times[NEpochs - 1] - times[0]

\* the age at which the redshift is zero: later than the last epoch
AgeNow == times[NEpochs - 1] + TimeUnit

\* cosmo.tage_to_z: redshift of a cosmic age, strictly decreasing in the age
tage_to_z(age) == AgeNow - age

\* gal.redz: the redshift of each epoch
redz == [k \in 0..(NEpochs - 1) |-> tage_to_z(times[k])]

\* the inspiral times a system can carry: from 0 to beyond the whole span
TinspValues == {TimeUnit * j : j \in 0..(TotalSpan \div TimeUnit + 1)}

---------------------------------------------------------------------------
(* Values *)

\* a float: NaN, a number, or a local that was never assigned
NaN == [k |-> "nan", v |-> 0]

Num(x) == [k |-> "num", v |-> x]

Unbound == [k |-> "unbound", v |-> 0]

\* a phase-space point (R,vR,vT,Z,vZ,Phi): the initial condition it descends
\* from, the segments integrated since, and the unit system it is given in
NoPoint == [kin |-> 0, path |-> <<>>, unit |-> "none"]

\* no Orbit object bound to orb yet
NoOrb == [start |-> NoPoint, seg |-> <<>>]

\* X,Y,Z,vX,vY,vZ,R_offset (one symbolic point) and Rproj_offset, as NaN
NaNOut == [nan |-> TRUE, pt |-> NoPoint, proj |-> [pt |-> NoPoint, draw |-> 0]]

\* utils.orbit_cgs_to_nat
orbit_cgs_to_nat(p) == [p EXCEPT !.unit = "nat"]

\* utils.orbit_nat_to_cgs
orbit_nat_to_cgs(p) == [p EXCEPT !.unit = "cgs"]

\* utils.cartesian_to_cylindrical(R,0,0,Vpx,Vpy,Vpz) of a system: its starting point
cartesian_to_cylindrical(sys) == [kin |-> sys.kin, path |-> <<>>, unit |-> "cgs"]

\* gp_orbit(vxvv=seed) followed by orb.integrate(ts, pot) with ts = linspace(0, dt)
Integrate(seed, dt, pot) == [start |-> seed, seg |-> <<[dt |-> dt, pot |-> pot]>>]

\* orb.getOrbit()[-1]: the end of the integrated segment, in natural units
getOrbitEnd(orb) ==
    [kin |-> orb.start.kin, path |-> orb.start.path \o orb.seg, unit |-> "nat"]

\* the number of random angles one transform_orbits call draws
NDraws == 3

\* transform_orbits(orb)[..][-1] with the generator at position rng
transform_orbits(orb, rng) ==
    LET end == orbit_nat_to_cgs(getOrbitEnd(orb))
    IN  [nan |-> FALSE, pt |-> end, proj |-> [pt |-> end, draw |-> rng]]

---------------------------------------------------------------------------
(* integrate_orbits *)

\* entry of integrate_orbits: lines 466-496
InitTask(sys, rng0) ==
    [ idx |-> sys.idx, SNsurvive |-> sys.SNsurvive, Tinsp0 |-> sys.Tinsp,
      kin |-> sys.kin,
      pc |-> "outer", exit |-> "none",
      Tinsp |-> sys.Tinsp, T_elapsed |-> 0, tt |-> 0,
      INSP_FLAG |-> FALSE, MERGED |-> FALSE, FINISHED_EVOLVING |-> FALSE,
      merger_redz |-> Unbound, orb |-> NoOrb, out |-> NaNOut,
      wall |-> 0, rng |-> rng0, wrote |-> FALSE,
      nfull |-> 0, nmerge |-> 0, tmerge |-> 0,
      traj |-> <<>>, steps |-> <<>> ]

\* no call under way
IdleTask == [pc |-> "idle"]

\* line 501 with the test dropped: a disrupted system is integrated like any other
Disrupted_Never(st) == FALSE

\* line 501
Disrupted(st) == st.SNsurvive = FALSE

\* the wall-clock budget of one call, in seconds: the default of lines 330 and 456
Tint_max == 60

\* the seconds one integrator call can take: next to none, or more than the
\* whole budget
Costs == {0, Tint_max + 1}

\* time.time() - start_time after an integrator call that took cost seconds;
\* only its comparison with Tint_max is ever read, so it saturates just above
Tick(wall, cost) ==
    IF wall + cost > Tint_max THEN Tint_max + 1 ELSE wall + cost

\* lines 498-519: the head of the outer loop, up to the entry of the main loop
OuterBody(c, st) ==
    IF Disrupted(st)
    THEN [st EXCEPT !.merger_redz = NaN, !.FINISHED_EVOLVING = TRUE,
                    !.pc = "returned", !.exit = "return506"]
    ELSE [st EXCEPT !.Tinsp = IF c.interp THEN Tcgs_to_nat(st.Tinsp) ELSE st.Tinsp,
                    !.T_elapsed = 0, !.tt = c.t0, !.pc = "inner"]

\* lines 524-527 with the mode ignored: the last interval's potential always
tt_pot_Last(c, tt) == NEpochs - 2

\* lines 524-527
tt_pot(c, tt) == IF c.fixed_potential THEN NEpochs - 2 ELSE tt

\* the potential handed to orb.integrate: lines 569/603 and 574/606
Potential(c, tt) ==
    IF c.interp THEN [kind |-> "interpolated", upto |-> tt_pot(c, tt)]
                ELSE [kind |-> "full", upto |-> tt_pot(c, tt)]

\* line 544 calls orbit_nat_to_cgs, a name system.py never binds (only the
\* module utils is imported): reaching it raises NameError
RaisesNameError(c, st) == st.tt # c.t0 /\ ~c.interp

\* lines 530-544: the seed of this step
Seed(c, st) ==
    IF st.tt = c.t0
    THEN IF c.interp
         THEN orbit_cgs_to_nat(cartesian_to_cylindrical(st))
         ELSE cartesian_to_cylindrical(st)
    ELSE IF c.interp
         THEN getOrbitEnd(st.orb)
         ELSE orbit_nat_to_cgs(getOrbitEnd(st.orb))

\* lines 548-550
StepDt(c, tt) ==
    IF c.interp THEN Tcgs_to_nat(times[tt + 1] - times[tt])
                ELSE times[tt + 1] - times[tt]

\* line 555 without the INSP_FLAG test: every later step records a merger again
MergerCrossed_NoFlag(T_elapsed, dt, Tinsp, INSP_FLAG) ==
    (T_elapsed + dt) > Tinsp

\* line 555 without the step ahead: the crossing is seen once it is behind
MergerCrossed_Late(T_elapsed, dt, Tinsp, INSP_FLAG) ==
    T_elapsed > Tinsp /\ INSP_FLAG = FALSE

\* line 555
MergerCrossed(T_elapsed, dt, Tinsp, INSP_FLAG) ==
    (T_elapsed + dt) > Tinsp /\ INSP_FLAG = FALSE

\* line 558 without the time already elapsed
dt_merge_FromBirth(Tinsp, T_elapsed) == Tinsp

\* line 558
dt_merge(Tinsp, T_elapsed) == Tinsp - T_elapsed

\* lines 570-571 and 575-576 with the redshift of today in place of that of
\* the merger
MergerRedz_Today(c, st) == 0

\* lines 570-571 and 575-576
MergerRedz(c, st) ==
    IF c.interp
    THEN tage_to_z(Tnat_to_cgs(Tcgs_to_nat(times[c.t0]) + st.Tinsp))
    ELSE tage_to_z(times[c.t0] + st.Tinsp)

\* line 582 with the flag ignored: the merger never stops the integration
MergerStop_Never(c) == FALSE

\* line 582 with the flag ignored: the merger always stops the integration
MergerStop_Always(c) == TRUE

\* line 582
MergerStop(c) == c.Tinsp_lim = TRUE

\* line 610
LastEpoch(tt) == tt = NEpochs - 2

\* line 630 with the budget never found exceeded
BudgetExceeded_Never(wall) == FALSE

\* line 630
BudgetExceeded(wall) == wall > Tint_max

\* lines 654-657 and 679-682: int_times of the samples of orb, whose ts runs
\* from 0 to the length of the integrated segment: the first and the last
IntTimes(c, T_elapsed, orb) ==
    IF c.interp
    THEN [first |-> times[c.t0] + Tnat_to_cgs(T_elapsed + 0),
          last  |-> times[c.t0] + Tnat_to_cgs(T_elapsed + orb.seg[1].dt)]
    ELSE [first |-> times[c.t0] + 0 + T_elapsed,
          last  |-> times[c.t0] + orb.seg[1].dt + T_elapsed]

\* lines 645-658 and 670-683: the samples of orb appended to the trajectory
\* lists when save_traj is set; tt is the epoch interval orb was integrated in
Recorded(c, st, tt, T_elapsed, orb) ==
    IF c.save_traj
    THEN Append(st.traj, [tt |-> tt, orb |-> orb, time |-> IntTimes(c, T_elapsed, orb)])
    ELSE st.traj

\* one orb.integrate call: the pass tt of the main loop it belongs to, the
\* branch it is in (lines 566-574 or 601-606), its seed, the length of its ts
\* and its potential
Step(kind, tt, seed, dt, pot) ==
    [kind |-> kind, tt |-> tt, seed |-> seed, dt |-> dt, pot |-> pot]

\* lines 556-579: the partial integration up to the merger, taking cost seconds
MergerBranch(c, st, cost) ==
    [st EXCEPT !.orb = Integrate(Seed(c, st), dt_merge(st.Tinsp, st.T_elapsed),
                                 Potential(c, st.tt)),
               !.steps = Append(st.steps,
                                Step("merger", st.tt, Seed(c, st),
                                     dt_merge(st.Tinsp, st.T_elapsed),
                                     Potential(c, st.tt))),
               !.merger_redz = Num(MergerRedz(c, st)),
               !.INSP_FLAG = TRUE, !.MERGED = TRUE,
               !.wall = Tick(st.wall, cost),
               !.nmerge = st.nmerge + 1, !.tmerge = st.tt]

\* lines 592-660: the full step over the epoch interval and the tests after it;
\* seed is the seed of this iteration, s the locals after lines 553-588
FullStep(c, s, seed, cost) ==
    LET dt == StepDt(c, s.tt)
        s1 == [s EXCEPT !.T_elapsed = s.T_elapsed + dt,
                        !.orb = Integrate(seed, dt, Potential(c, s.tt)),
                        !.steps = Append(s.steps,
                                         Step("full", s.tt, seed, dt, Potential(c, s.tt))),
                        !.wall = Tick(s.wall, cost),
                        !.nfull = s.nfull + 1]
    IN  IF LastEpoch(s.tt)
        THEN [s1 EXCEPT !.merger_redz = IF s.MERGED THEN s.merger_redz ELSE Num(0),
                        !.FINISHED_EVOLVING = TRUE, !.pc = "post", !.exit = "break626"]
        ELSE IF BudgetExceeded(s1.wall)
        THEN [s1 EXCEPT !.merger_redz = Num(-1),
                        !.FINISHED_EVOLVING = TRUE, !.pc = "post", !.exit = "break639"]
        ELSE [s1 EXCEPT !.out = transform_orbits(s1.orb, s.rng),
                        !.rng = s.rng + NDraws,
                        !.traj = Recorded(c, s1, s1.tt, s1.T_elapsed, s1.orb),
                        !.tt = s.tt + 1]

\* lines 521-660: one pass of the main loop, its test included; cm and cf are
\* the seconds the merger integration and the full integration take
InnerBody(c, st, cm, cf) ==
    IF ~(st.tt < NEpochs - 1)
    THEN [st EXCEPT !.pc = "outer"]
    ELSE IF RaisesNameError(c, st)
    THEN [st EXCEPT !.pc = "raised", !.exit = "NameError544"]
    ELSE IF MergerCrossed(st.T_elapsed, StepDt(c, st.tt), st.Tinsp, st.INSP_FLAG)
    THEN IF MergerStop(c)
         THEN [MergerBranch(c, st, cm) EXCEPT !.FINISHED_EVOLVING = TRUE,
                                              !.pc = "post", !.exit = "break588"]
         ELSE FullStep(c, MergerBranch(c, st, cm), Seed(c, st), cf)
    ELSE FullStep(c, st, Seed(c, st), cf)

\* lines 664-705: the final transform, the trajectory file, the return
FinishBody(c, st) ==
    [st EXCEPT !.out = transform_orbits(st.orb, st.rng),
               !.rng = st.rng + NDraws,
               !.traj = Recorded(c, st, st.tt, st.T_elapsed, st.orb),
               !.wrote = c.save_traj,
               !.pc = "returned"]

\* every way one step of a call can go, over the seconds its integrations take
TaskSucc(c, st) ==
    CASE st.pc = "outer" -> {OuterBody(c, st)}
      [] st.pc = "inner" -> {InnerBody(c, st, cm, cf) : cm \in Costs, cf \in Costs}
      [] st.pc = "post"  -> {FinishBody(c, st)}
      [] OTHER -> {}

\* the values integrate_orbits returns: line 506 or line 705
Returned(st) == [out |-> st.out, merger_redz |-> st.merger_redz]

\* the state of section 4.3 a call has ended in
Terminal(st) ==
    CASE st.exit = "return506" -> "DISRUPTED"
      [] st.exit = "break588" -> "MERGED"
      [] st.exit = "break626" -> "EXHAUSTED"
      [] st.exit = "break639" -> "TIMED_OUT"
      [] OTHER -> "NONE"

---------------------------------------------------------------------------
(* Specification Spec: one call of integrate_orbits *)

Configs ==
    [ t0 : 0..(NEpochs - 1), Tinsp_lim : BOOLEAN, interp : BOOLEAN,
      fixed_potential : BOOLEAN, save_traj : BOOLEAN ]

\* one row of systems_info (line 358); kin stands for its R, Vpx, Vpy, Vpz
SystemRows(i) ==
    [ idx : {i}, SNsurvive : BOOLEAN, Tinsp : TinspValues, kin : {i + 1} ]

Init ==
    /\ cfg \in Configs
    /\ \E sys \in SystemRows(0) : task = InitTask(sys, 0)
    /\ systems = <<>>
    /\ ev = <<>>

OuterLoop ==
    /\ task.pc = "outer"
    /\ task' = OuterBody(cfg, task)
    /\ UNCHANGED <<cfg, systems, ev>>

InnerLoop ==
    /\ task.pc = "inner"
    /\ \E cm \in Costs, cf \in Costs : task' = InnerBody(cfg, task, cm, cf)
    /\ UNCHANGED <<cfg, systems, ev>>

Finish ==
    /\ task.pc = "post"
    /\ task' = FinishBody(cfg, task)
    /\ UNCHANGED <<cfg, systems, ev>>

Next == OuterLoop \/ InnerLoop \/ Finish

Spec == Init /\ [][Next]_vars

\* a running call keeps executing
FairSpec == Spec /\ WF_vars(Next)

---------------------------------------------------------------------------
(* Properties of integrate_orbits, checked under Spec and FairSpec *)

\* a time of the working unit system of this run, in cgs
ToCgs(t) == IF cfg.interp THEN Tnat_to_cgs(t) ELSE t

\* the merger redshift of the system: tage_to_z(times[t0] + Tinsp)
MergerRedshift == Num(tage_to_z(times[cfg.t0] + task.Tinsp0))

\* the call is over: it returned or it raised
Ended == task.pc \in {"returned", "raised"}

\* C1: a system with SNsurvive=False is returned at once, whatever t0, the
\* potentials and the configuration: no integration step, no trajectory
\* file; position, velocity and both offsets are NaN, merger_redz is NaN.
C1_DisruptedReturnsNaN ==
    task.SNsurvive = FALSE =>
        /\ task.pc \in {"outer", "returned"}
        /\ task.nfull = 0 /\ task.nmerge = 0
        /\ task.orb = NoOrb /\ task.wrote = FALSE
        /\ task.pc = "returned" =>
              /\ Terminal(task) = "DISRUPTED"
              /\ Returned(task) = [out |-> NaNOut, merger_redz |-> NaN]

\* C1 happens: a disrupted system has returned, with trajectory recording on
C1_Witness ==
    task.SNsurvive = FALSE /\ task.pc = "returned" /\ cfg.save_traj

\* C2: for every surviving system and every birth epoch t0 in 0..T-1 the
\* call eventually returns in one of MERGED, EXHAUSTED, TIMED_OUT.
C2_EventuallyReturns ==
    task.SNsurvive = TRUE =>
        <>(task.pc = "returned" /\ Terminal(task) \in {"MERGED", "EXHAUSTED", "TIMED_OUT"})

\* C3: a surviving system whose inspiral time exceeds the total time span
\* ends EXHAUSTED, after the step that ends at times[T-1], with merger_redz 0.
C3_LongInspiralExhausts ==
    (task.SNsurvive /\ task.Tinsp0 > TotalSpan /\ Ended) =>
        /\ task.pc = "returned"
        /\ Terminal(task) = "EXHAUSTED"
        /\ task.tt = NEpochs - 2
        /\ task.merger_redz = Num(0)

\* the case of C4: the inspiral time is shorter than the first epoch interval
C4_Case ==
    /\ task.SNsurvive
    /\ cfg.t0 <= NEpochs - 2
    /\ task.Tinsp0 < times[cfg.t0 + 1] - times[cfg.t0]

\* the statement of C4: merged within the first step, no second step, at a
\* redshift strictly below that of the birth epoch
C4_MergedInFirstStep ==
    /\ task.pc # "raised"
    /\ task.pc = "inner" => task.tt = cfg.t0 /\ task.nfull = 0 /\ task.nmerge = 0
    /\ task.pc \in {"post", "returned"} =>
          /\ Terminal(task) = "MERGED"
          /\ task.tt = cfg.t0 /\ task.nfull = 0 /\ task.nmerge = 1
          /\ task.merger_redz.k = "num"
          /\ task.merger_redz.v < redz[cfg.t0]

\* C4 as stated: a surviving system whose inspiral time is shorter than the
\* first epoch interval merges within the first step, at a redshift strictly
\* less than redz[t0].
C4_Original == C4_Case => C4_MergedInFirstStep

\* C4 as amended: the same, with the merger-stop flag enabled and a positive
\* inspiral time.
C4_ShortInspiralMerges ==
    (C4_Case /\ cfg.Tinsp_lim /\ task.Tinsp0 > 0) => C4_MergedInFirstStep

\* C4 happens: such a system has returned
C4_Witness ==
    C4_Case /\ cfg.Tinsp_lim /\ task.Tinsp0 > 0 /\ task.pc = "returned"

\* C5: with Tinsp_lim=True, at the first step where T_elapsed + dt > Tinsp
\* the step is cut to dt_merge = Tinsp - T_elapsed, so that the elapsed time
\* lands on Tinsp; only that partial step is integrated; merger_redz is
\* tage_to_z(times[t0] + Tinsp); the state is MERGED; no later step runs;
\* the position returned is the end of the partial step.
C5_MergerStopsAtTinsp ==
    (cfg.Tinsp_lim /\ task.exit = "break588") =>
        /\ Terminal(task) = "MERGED"
        /\ times[task.tt] - times[cfg.t0] <= task.Tinsp0
        /\ task.Tinsp0 < times[task.tt + 1] - times[cfg.t0]
        /\ ToCgs(task.T_elapsed) = times[task.tt] - times[cfg.t0]
        /\ Len(task.orb.seg) = 1
        /\ task.orb.seg[1].dt = task.Tinsp - task.T_elapsed
        /\ ToCgs(task.T_elapsed + task.orb.seg[1].dt) = task.Tinsp0
        /\ task.orb.seg[1].pot = Potential(cfg, task.tt)
        /\ task.merger_redz = MergerRedshift
        /\ task.nmerge = 1 /\ task.nfull = task.tt - cfg.t0
        /\ Len(getOrbitEnd(task.orb).path) = task.nfull + 1
        /\ task.pc = "returned" =>
              /\ task.out.nan = FALSE
              /\ task.out.pt = orbit_nat_to_cgs(getOrbitEnd(task.orb))
              /\ task.out.proj.pt = task.out.pt

\* C5 happens: a merger in a step later than the first one, after time has elapsed
C5_Witness ==
    /\ cfg.Tinsp_lim /\ task.exit = "break588" /\ task.pc = "returned"
    /\ task.tt > cfg.t0 /\ task.orb.seg[1].dt > 0

\* C6: with Tinsp_lim=False every surviving system is integrated through the
\* whole remaining epoch sequence: exactly T-1-t0 full epoch steps, whatever
\* its inspiral time.
C6_AllEpochsIntegrated ==
    (task.SNsurvive /\ ~cfg.Tinsp_lim /\ Ended) =>
        /\ task.pc = "returned"
        /\ task.nfull = NEpochs - 1 - cfg.t0

\* the statement of C7 on what is recorded, and when
C7_RecordedOnce ==
    /\ task.nmerge <= 1
    /\ task.INSP_FLAG <=> task.nmerge = 1
    /\ task.MERGED <=> task.nmerge = 1
    /\ task.nmerge = 0 => ToCgs(task.T_elapsed) <= task.Tinsp0
    /\ task.nmerge = 1 =>
          /\ times[task.tmerge] - times[cfg.t0] <= task.Tinsp0
          /\ task.Tinsp0 < times[task.tmerge + 1] - times[cfg.t0]
          /\ task.exit # "break639" => task.merger_redz = MergerRedshift

\* C7 as stated: with Tinsp_lim=False the merger redshift is recorded the
\* first time the threshold is crossed, and only then, and it is the
\* merger_redz returned.
C7_Original ==
    (task.SNsurvive /\ ~cfg.Tinsp_lim) =>
        /\ C7_RecordedOnce
        /\ (task.pc = "returned" /\ task.nmerge = 1) => task.merger_redz = MergerRedshift

\* C7 as amended: the same, except that a call the wall-clock budget stops
\* after the crossing returns -1 in place of the recorded redshift.
C7_RecordedRedshiftReturned ==
    (task.SNsurvive /\ ~cfg.Tinsp_lim) =>
        /\ C7_RecordedOnce
        /\ (task.pc = "returned" /\ task.nmerge = 1) =>
              task.merger_redz = IF Terminal(task) = "TIMED_OUT" THEN Num(-1)
                                                               ELSE MergerRedshift

\* C7 happens: a crossing was recorded in an early step and the call went on
\* to the last epoch and returned the recorded redshift
C7_Witness ==
    /\ task.SNsurvive /\ ~cfg.Tinsp_lim /\ task.pc = "returned"
    /\ task.nmerge = 1 /\ task.tmerge < task.tt
    /\ Terminal(task) = "EXHAUSTED" /\ task.merger_redz = MergerRedshift

---------------------------------------------------------------------------
(* Systems.evolve *)

\* the steps a call that ends takes at most: the loop head, one pass per
\* epoch interval, the return
MaxSteps == NEpochs + 1

\* integrate_orbits run from st to its end, over every wall-clock timing: the
\* calls that returned or raised, and "hung" for a call still looping after
\* more steps than a call that ends can take
RECURSIVE Outcomes(_, _, _)
Outcomes(c, st, fuel) ==
    IF st.pc \in {"returned", "raised"} THEN {st}
    ELSE IF fuel = 0 THEN {[st EXCEPT !.pc = "hung"]}
    ELSE UNION {Outcomes(c, s2, fuel - 1) : s2 \in TaskSucc(c, st)}

\* the value a call hands to evolve: the tuple returned, or the exception
Handed(o) ==
    IF o.pc = "returned" THEN [exc |-> FALSE, val |-> Returned(o)]
                         ELSE [exc |-> TRUE, val |-> Returned(InitTask(o, 0))]

\* line 701 with one file name for every system
TrajFile_Shared(idx) == <<"trajectories_", 0, ".hdf">>

\* line 701: the name of the per-system artifact, 'trajectories_'+str(idx)+'.hdf'
TrajFile(idx) == <<"trajectories_", idx, ".hdf">>

\* line 427: the name of the consolidated artifact, 'trajectories.hdf'
ConsolidatedFile == <<"trajectories", ".hdf">>

\* line 423: 'trajectories_' in f
IsTemp(f) == f[1] = "trajectories_"

\* lines 425-427: the key 'system_'+idx, idx cut out of the file name
KeyOf(f) == <<"system_", f[2]>>

\* DataFrame.to_hdf(name, key='system', mode='a'): the file holds the frame
ToHdf(dir, name, content) == (name :> content) @@ dir

\* lines 670-701: the file a call writes, if it writes one
Written(o) ==
    IF o.pc = "returned" /\ o.wrote
    THEN {[by |-> o.idx, name |-> TrajFile(o.idx), content |-> o.traj]}
    ELSE {}

\* func(system) of lines 369/391 in a process whose generator is at rng0: how
\* the call ends, what it hands back, where it leaves the generator, and
\* what it wrote in outdir
Call(c, sys, rng0) ==
    {[pc |-> o.pc, ret |-> Handed(o), rng |-> o.rng, writes |-> Written(o)] :
        o \in Outcomes(c, InitTask(sys, rng0), MaxSteps + 1)}

\* line 373 with the results taken in the order the workers completed them
CompletionOrder(completed) == [k \in 1..Len(completed) |-> completed[k].ret]

\* line 373: pool.map returns the results in the order of systems_info,
\* whatever the order the workers completed them in
PoolMapResults(completed) ==
    [k \in 1..Len(completed) |->
        (CHOOSE e \in {completed[j] : j \in 1..Len(completed)} : e.idx = k - 1).ret]

\* the workers of a pool of mp processes
Workers(run) == 1..run.multiproc

\* evolve entered with multiproc = mp (0 stands for None), the generator of
\* the calling process at prng0; lines 343-372.  A forked worker starts with
\* a copy of the generator of the parent.
InitRun(mp, prng0) ==
    [ multiproc |-> mp,
      pc |-> IF mp = 0 THEN "serial" ELSE "pool",
      next |-> 0,
      prng |-> prng0,
      wstat |-> [w \in 1..mp |-> "fresh"],
      wtask |-> [w \in 1..mp |-> 0],
      wrng |-> [w \in 1..mp |-> prng0],
      completed |-> <<>>,
      Xs |-> <<>>,
      out |-> <<>>,
      outdir |-> <<>>,
      wlog |-> {} ]

\* outdir after the call that ended as o, and the record of who wrote what
FilesAfter(run, o) ==
    [run EXCEPT !.outdir = IF o.writes = {} THEN run.outdir
                           ELSE LET w == CHOOSE w \in o.writes : TRUE
                                IN  ToHdf(run.outdir, w.name, w.content),
                !.wlog = run.wlog \cup o.writes]

\* lines 389-402: one pass of the serial loop, whose call ends as o
SerialPass(run, o) ==
    IF o.pc = "returned"
    THEN [FilesAfter(run, o) EXCEPT !.Xs = Append(run.Xs, o.ret.val), !.prng = o.rng,
                                    !.next = run.next + 1]
    ELSE [run EXCEPT !.pc = o.pc]

\* lines 422-428 without the os.remove of line 428
Consolidate_KeepTemp(dir) ==
    LET temps == {f \in DOMAIN dir : IsTemp(f)}
        old == IF ConsolidatedFile \in DOMAIN dir THEN dir[ConsolidatedFile] ELSE <<>>
        store == [k \in DOMAIN old \cup {KeyOf(f) : f \in temps} |->
                     IF \E f \in temps : KeyOf(f) = k
                     THEN dir[CHOOSE f \in temps : KeyOf(f) = k]
                     ELSE old[k]]
    IN  IF temps = {} THEN dir ELSE ToHdf(dir, ConsolidatedFile, store)

\* lines 422-428: every file of outdir whose name holds 'trajectories_' is
\* read, put in 'trajectories.hdf' under its key (to_hdf opens the file in
\* mode 'a': the keys it holds already stay) and removed.  The keys of two
\* files differ, so the order os.listdir gives them in does not matter.
Consolidate(dir) ==
    LET temps == {f \in DOMAIN dir : IsTemp(f)}
        old == IF ConsolidatedFile \in DOMAIN dir THEN dir[ConsolidatedFile] ELSE <<>>
        store == [k \in DOMAIN old \cup {KeyOf(f) : f \in temps} |->
                     IF \E f \in temps : KeyOf(f) = k
                     THEN dir[CHOOSE f \in temps : KeyOf(f) = k]
                     ELSE old[k]]
        kept == (DOMAIN dir \ temps) \cup (IF temps = {} THEN {} ELSE {ConsolidatedFile})
    IN  [f \in kept |-> IF f = ConsolidatedFile /\ temps # {} THEN store ELSE dir[f]]

\* lines 409-430: the lists become the arrays of the ensemble, the
\* trajectory files are consolidated if save_traj is set, evolve returns
Stored(c, run, lists) ==
    [run EXCEPT !.out = lists,
                !.outdir = IF c.save_traj = TRUE THEN Consolidate(run.outdir)
                                                 ELSE run.outdir,
                !.pc = "done"]

\* a worker that waits for a task; the workers that have run no task yet are
\* copies of one another, and the first of them stands for all
Free(run, w) ==
    \/ run.wstat[w] = "idle"
    \/ run.wstat[w] = "fresh" /\ \A v \in 1..(w - 1) : run.wstat[v] # "fresh"

\* a worker takes the next task of the map
Dispatched(run, w) ==
    [run EXCEPT !.wstat[w] = "busy", !.wtask[w] = run.next, !.next = run.next + 1]

\* a worker's call ends as o: the result, or the exception, goes back to the parent
Completed(run, w, o) ==
    IF o.pc = "hung"
    THEN [run EXCEPT !.wstat[w] = "stuck"]
    ELSE [FilesAfter(run, o) EXCEPT
              !.wstat[w] = "idle", !.wrng[w] = o.rng, !.wtask[w] = 0,
              !.completed = Append(run.completed,
                                   [idx |-> run.wtask[w], ret |-> o.ret])]

\* lines 373-378 and 409-430: map returns once every task is done and raises
\* the exception of a task that raised; else the results are stored
MapReturned(c, run) ==
    IF \E k \in 1..Len(run.completed) : run.completed[k].ret.exc
    THEN [run EXCEPT !.pc = "raised"]
    ELSE Stored(c, run, [k \in 1..Nsys |-> PoolMapResults(run.completed)[k].val])

\* the inspiral times of the ensembles: a merger within the first interval,
\* a merger in the last interval, no merger before the last epoch
TinspEnsemble == {TimeUnit, TotalSpan - TimeUnit, TotalSpan + TimeUnit}

\* the rows of the ensembles; the inspiral time of a disrupted system is never read
EnsembleRows ==
    {row \in UNION {SystemRows(i) : i \in 0..(Nsys - 1)} :
        /\ row.Tinsp \in TinspEnsemble
        /\ row.SNsurvive = FALSE => row.Tinsp = TimeUnit}

\* the ensembles evolve is given: row i is system i
Ensembles == {e \in [0..(Nsys - 1) -> EnsembleRows] : \A i \in 0..(Nsys - 1) : e[i].idx = i}

\* the calls of evolve a specification makes
Runs == {1, 2}

\* calls of evolve are made one after the other
Turn(r) == r \in DOMAIN ev /\ \A q \in 1..(r - 1) : ev[q].pc = "done"

SerialCall(r) ==
    /\ Turn(r)
    /\ ev[r].pc = "serial" /\ ev[r].next < Nsys
    /\ \E o \in Call(cfg, systems[ev[r].next], ev[r].prng) :
           ev' = [ev EXCEPT ![r] = SerialPass(ev[r], o)]
    /\ UNCHANGED <<cfg, task, systems>>

SerialStore(r) ==
    /\ Turn(r)
    /\ ev[r].pc = "serial" /\ ev[r].next = Nsys
    /\ ev' = [ev EXCEPT ![r] = Stored(cfg, ev[r], ev[r].Xs)]
    /\ UNCHANGED <<cfg, task, systems>>

Dispatch(r, w) ==
    /\ Turn(r)
    /\ ev[r].pc = "pool" /\ ev[r].next < Nsys
    /\ w \in Workers(ev[r]) /\ Free(ev[r], w)
    /\ ev' = [ev EXCEPT ![r] = Dispatched(ev[r], w)]
    /\ UNCHANGED <<cfg, task, systems>>

Complete(r, w) ==
    /\ Turn(r)
    /\ ev[r].pc = "pool"
    /\ w \in Workers(ev[r]) /\ ev[r].wstat[w] = "busy"
    /\ \E o \in Call(cfg, systems[ev[r].wtask[w]], ev[r].wrng[w]) :
           ev' = [ev EXCEPT ![r] = Completed(ev[r], w, o)]
    /\ UNCHANGED <<cfg, task, systems>>

MapReturn(r) ==
    /\ Turn(r)
    /\ ev[r].pc = "pool" /\ Len(ev[r].completed) = Nsys
    /\ ev' = [ev EXCEPT ![r] = MapReturned(cfg, ev[r])]
    /\ UNCHANGED <<cfg, task, systems>>

NextEvolve ==
    \/ \E r \in Runs : SerialCall(r)
    \/ \E r \in Runs : SerialStore(r)
    \/ \E r \in Runs, w \in 1..MaxWorkers : Dispatch(r, w)
    \/ \E r \in Runs, w \in 1..MaxWorkers : Complete(r, w)
    \/ \E r \in Runs : MapReturn(r)

\* the content of a file an earlier call left in outdir
StaleTraj == <<[tt |-> 0, orb |-> NoOrb, time |-> [first |-> 0, last |-> 0]]>>

\* outdir when evolve is called: empty, or holding the per-system file of an
\* earlier call that ended before its consolidation
Outdirs(c) ==
    IF c.save_traj THEN {<<>>, ToHdf(<<>>, TrajFile(0), StaleTraj)} ELSE {<<>>}

\* one call of evolve, serial or over 1..MaxWorkers workers
InitEvolve ==
    /\ cfg \in Configs
    /\ task = IdleTask
    /\ systems \in Ensembles
    /\ \E mp \in 0..MaxWorkers, dir \in Outdirs(cfg) :
           ev = <<[InitRun(mp, 0) EXCEPT !.outdir = dir]>>

SpecEvolve == InitEvolve /\ [][NextEvolve]_vars

\* a serial call, then a parallel call, on the same ensemble, with the same
\* configuration and the generator seeded alike; trajectory recording, which
\* does not enter the arrays, is left off
InitCompare ==
    /\ cfg \in {c \in Configs : c.save_traj = FALSE}
    /\ task = IdleTask
    /\ systems \in Ensembles
    /\ \E mp \in 1..MaxWorkers : ev = <<InitRun(0, 0), InitRun(mp, 0)>>

SpecCompare == InitCompare /\ [][NextEvolve]_vars

---------------------------------------------------------------------------
(* Properties of Systems.evolve, checked under SpecEvolve and SpecCompare *)

\* a returned tuple without the random angles its projected offset drew
Undrawn(v) == [v EXCEPT !.out.proj.draw = 0]

\* what integrate_orbits can return for system i under the configuration, over
\* every wall-clock timing, the random angles of the projection left aside
ResultsOf(i) ==
    {Undrawn(o.ret.val) : o \in {q \in Call(cfg, systems[i], 0) : q.pc = "returned"}}

\* C9: after Systems.evolve, element i of every output array is the result
\* of integrating input system i, for all i in 0..Nsys-1, in serial mode and
\* in parallel mode, whatever the worker count and the order of completion.
C9_OutputOrderIsInputOrder ==
    \A r \in DOMAIN ev :
        ev[r].pc = "done" =>
            /\ Len(ev[r].out) = Nsys
            /\ \A i \in 0..(Nsys - 1) : Undrawn(ev[r].out[i + 1]) \in ResultsOf(i)

\* C9 happens: a parallel call is done whose workers completed the tasks in
\* another order than the input order, for systems that all survived
C9_Witness ==
    \E r \in DOMAIN ev :
        /\ ev[r].pc = "done" /\ ev[r].multiproc > 1
        /\ \E k \in 1..(Nsys - 1) : ev[r].completed[k].idx > ev[r].completed[k + 1].idx
        /\ \A i \in 0..(Nsys - 1) : systems[i].SNsurvive

\* both calls of SpecCompare are done
BothDone == DOMAIN ev = {1, 2} /\ ev[1].pc = "done" /\ ev[2].pc = "done"

\* C10: a serial and a parallel call of Systems.evolve on the same ensemble,
\* with the same configuration and the generator of the projection angles
\* seeded alike, give the same ordering and the same per-system values, the
\* projected offset Rproj_offset included.
C10_SerialParallelIdentical ==
    BothDone => \A i \in 0..(Nsys - 1) : ev[1].out[i + 1] = ev[2].out[i + 1]

---------------------------------------------------------------------------
(* Properties of the trajectory record of integrate_orbits, checked under Spec *)

\* block k of the trajectory is the shortened merger step
MergerBlock(k) == task.exit = "break588" /\ k = Len(task.traj)

\* C19: with trajectory recording on, every recorded sample carries the
\* cumulative absolute cosmic time of its substep: the samples of the step
\* over epoch interval tt run from times[tt] to times[tt+1], those of a
\* shortened merger step from times[tt] up to times[t0] + Tinsp.
C19_SamplesCarryCosmicTime ==
    cfg.save_traj =>
        \A k \in 1..Len(task.traj) :
            /\ task.traj[k].time.first = times[task.traj[k].tt]
            /\ task.traj[k].time.last =
                  IF MergerBlock(k) THEN times[cfg.t0] + task.Tinsp0
                                   ELSE times[task.traj[k].tt + 1]

---------------------------------------------------------------------------
(* Properties of the trajectory files of Systems.evolve, checked under SpecEvolve *)

\* the workers of run r that are inside a call of integrate_orbits
Busy(r) == {w \in Workers(ev[r]) : ev[r].wstat[w] = "busy"}

\* C11: with trajectory recording on, each integration task writes only to
\* its own per-system artifact trajectories_<idx>.hdf: no two tasks, running
\* concurrently or not, write to the same file, and no task writes to the
\* consolidated trajectories.hdf.
C11_TasksWriteOwnFile ==
    \A r \in DOMAIN ev :
        /\ \A e \in ev[r].wlog : e.name # ConsolidatedFile /\ e.name[2] = e.by
        /\ \A e1, e2 \in ev[r].wlog : e1.by # e2.by => e1.name # e2.name
        /\ \A w \in Busy(r) : \A e \in ev[r].wlog :
               e.name # TrajFile(ev[r].wtask[w])
        /\ \A w1, w2 \in Busy(r) :
               w1 # w2 => TrajFile(ev[r].wtask[w1]) # TrajFile(ev[r].wtask[w2])

\* C11 happens: a task has written its file while a task handed out before
\* it is still running in another worker, and that one writes a file too
C11_Witness ==
    /\ cfg.save_traj
    /\ \E r \in DOMAIN ev : \E w \in Busy(r) : \E e \in ev[r].wlog :
           /\ e.by > ev[r].wtask[w]
           /\ systems[ev[r].wtask[w]].SNsurvive

\* the files of outdir that are per-system artifacts
TempFiles(dir) == {f \in DOMAIN dir : IsTemp(f)}

\* C12: with trajectory recording on, the consolidation starts only after
\* every task has completed (before that outdir holds no consolidated file),
\* and when evolve returns the consolidated collection holds one entry keyed
\* 'system_<idx>' for every per-system artifact that was written, with that
\* artifact's content, and no per-system file remains in outdir.
C12_ConsolidatedAfterAllTasks ==
    \A r \in DOMAIN ev :
        cfg.save_traj =>
            /\ ev[r].pc # "done" => ConsolidatedFile \notin DOMAIN ev[r].outdir
            /\ ev[r].pc = "done" =>
                  /\ ev[r].multiproc > 0 =>
                        Len(ev[r].completed) = Nsys /\ Busy(r) = {}
                  /\ ev[r].multiproc = 0 => ev[r].next = Nsys
                  /\ TempFiles(ev[r].outdir) = {}
                  /\ \A e \in ev[r].wlog :
                        /\ ConsolidatedFile \in DOMAIN ev[r].outdir
                        /\ KeyOf(e.name) \in DOMAIN ev[r].outdir[ConsolidatedFile]
                        /\ ev[r].outdir[ConsolidatedFile][KeyOf(e.name)] = e.content

\* C12 happens: a parallel call has returned after every system wrote its
\* file, and the collection holds what a system of this call wrote
C12_Witness ==
    /\ cfg.save_traj
    /\ \E r \in DOMAIN ev :
           /\ ev[r].pc = "done" /\ ev[r].multiproc > 1
           /\ \A i \in 0..(Nsys - 1) : \E e \in ev[r].wlog : e.by = i
           /\ \E i \in 0..(Nsys - 1) :
                  ev[r].outdir[ConsolidatedFile][KeyOf(TrajFile(i))] # StaleTraj

---------------------------------------------------------------------------
(* Failures inside a call, checked under SpecEvolve *)

\* C13: a failure raised while integrating one system never aborts
\* Systems.evolve, in serial and in parallel mode: the call of evolve is
\* never left by the exception, and when it is over it holds a result for
\* every one of the Nsys systems.
C13_FailureNeverAborts ==
    \A r \in DOMAIN ev :
        /\ ev[r].pc # "raised"
        /\ ev[r].pc = "done" => Len(ev[r].out) = Nsys

---------------------------------------------------------------------------
(* Systems.check_survival (system.py 126-178) *)

\* numpy comparisons and sums of floats: a comparison with NaN is False,
\* a sum with NaN is NaN
FLe(a, b) == a.k = "num" /\ b.k = "num" /\ a.v <= b.v

FAdd(a, b) == IF a.k = "num" /\ b.k = "num" THEN Num(a.v + b.v) ELSE NaN

FSub(a, b) == IF a.k = "num" /\ b.k = "num" THEN Num(a.v - b.v) ELSE NaN

\* line 146: Check 1 of a row, on its epost and its Apre/Apost
SNcheck1(row) ==
    FLe(FSub(Num(1), row.epost), row.ratio) /\ FLe(row.ratio, FAdd(Num(1), row.epost))

\* line 149: Check 2 of a row; the two inequalities on masses and velocities
\* enter as the truth value numpy computes for the row
SNcheck2(row) == row.c2

\* line 154: Check 3 of a row, likewise
SNcheck3(row) == row.c3

\* line 159: the first pass of Check 4
EpostLe1(row) == FLe(row.epost, Num(1))

\* line 161 with every row of the batch selected
Idxs_All(rows) == DOMAIN rows

\* line 161: idxs = np.where(self.SNcheck4==True)[0]
Idxs(rows) == {i \in DOMAIN rows : EpostLe1(rows[i]) = TRUE}

\* lines 164-168: max_val of a row of idxs.  Its value is NaN when a square
\* root of lines 166-167 has a negative argument, which is the case of every
\* row with epost > 1.
MaxVal(row) == row.max_val

\* lines 159-170: Check 4 of the batch
SNcheck4(rows) ==
    [i \in DOMAIN rows |->
        IF i \in Idxs(rows) THEN FLe(rows[i].Mhe, MaxVal(rows[i]))
                             ELSE EpostLe1(rows[i])]

\* line 174 without Check 4
SNsurvive_ThreeChecks(rows) ==
    [i \in DOMAIN rows |->
        SNcheck1(rows[i]) = TRUE /\ SNcheck2(rows[i]) = TRUE /\ SNcheck3(rows[i]) = TRUE]

\* line 174
SNsurvive(rows) ==
    [i \in DOMAIN rows |->
        /\ SNcheck1(rows[i]) = TRUE /\ SNcheck2(rows[i]) = TRUE
        /\ SNcheck3(rows[i]) = TRUE /\ SNcheck4(rows)[i] = TRUE]

\* np.sum of a boolean array
RECURSIVE NpSum(_)
NpSum(b) == IF b = <<>> THEN 0 ELSE (IF Head(b) THEN 1 ELSE 0) + NpSum(Tail(b))

\* lines 126-178: the attributes check_survival sets and the fraction it
\* returns, float(np.sum(SNsurvive))/float(len(SNsurvive)), kept as a ratio;
\* quad is the set of rows the quadratic of lines 164-168 was computed for
check_survival(rows) ==
    [ SNcheck1 |-> [i \in DOMAIN rows |-> SNcheck1(rows[i])],
      SNcheck2 |-> [i \in DOMAIN rows |-> SNcheck2(rows[i])],
      SNcheck3 |-> [i \in DOMAIN rows |-> SNcheck3(rows[i])],
      SNcheck4 |-> SNcheck4(rows),
      quad |-> Idxs(rows),
      SNsurvive |-> SNsurvive(rows),
      survival_fraction |-> [num |-> NpSum(SNsurvive(rows)), den |-> Len(rows)] ]

\* the rows of a batch: epost 0, 2 or undefined; the maximum progenitor mass
\* below Mhe, above it, or NaN, and NaN whenever epost is not <= 1
SurvivalRows ==
    {row \in [epost : {Num(0), Num(2), NaN}, ratio : {Num(1), Num(2)},
              c2 : BOOLEAN, c3 : BOOLEAN, Mhe : {Num(1)},
              max_val : {Num(0), Num(2), NaN}] :
        /\ ~EpostLe1(row) => row.max_val = NaN
        /\ row.epost = NaN => row.ratio = Num(1)}

InitSurvival ==
    /\ cfg = [fn |-> "check_survival"]
    /\ systems \in [1..Nsys -> SurvivalRows]
    /\ task = [pc |-> "called"]
    /\ ev = <<>>

CheckSurvival ==
    /\ task.pc = "called"
    /\ ev' = check_survival(systems)
    /\ task' = [pc |-> "returned"]
    /\ UNCHANGED <<cfg, systems>>

SpecSurvival == InitSurvival /\ [][CheckSurvival]_vars

\* C14: after check_survival, SNsurvive[i] is true exactly when SNcheck1[i],
\* SNcheck2[i], SNcheck3[i] and SNcheck4[i] are all true, and the value
\* returned is (number of systems with all four checks true) / Nsys.
C14_SurviveIsAllFourChecks ==
    task.pc = "returned" =>
        /\ \A i \in 1..Nsys :
               ev.SNsurvive[i] <=> (/\ ev.SNcheck1[i] /\ ev.SNcheck2[i]
                                    /\ ev.SNcheck3[i] /\ ev.SNcheck4[i])
        /\ ev.survival_fraction.den = Nsys
        /\ ev.survival_fraction.num =
              Cardinality({i \in 1..Nsys : /\ ev.SNcheck1[i] /\ ev.SNcheck2[i]
                                           /\ ev.SNcheck3[i] /\ ev.SNcheck4[i]})

\* C14 happens: a batch with a survivor and with a row only Check 4 fails
C14_Witness ==
    /\ task.pc = "returned"
    /\ \E i \in 1..Nsys : ev.SNsurvive[i]
    /\ \E i \in 1..Nsys :
           ev.SNcheck1[i] /\ ev.SNcheck2[i] /\ ev.SNcheck3[i] /\ ~ev.SNcheck4[i]

\* the positions of the rows of the batch with epost <= 1, in order
Le1Positions ==
    SelectSeq([i \in 1..Len(systems) |-> i], LAMBDA i : EpostLe1(systems[i]))

\* check_survival of the batch without its rows with epost > 1 or undefined
WithoutGt1 == check_survival([k \in 1..Len(Le1Positions) |-> systems[Le1Positions[k]]])

\* C15: in check_survival every system with epost > 1, or epost undefined,
\* fails Check 4 outright; the quadratic of Check 4 is evaluated over the
\* systems with epost <= 1 only; and the results of the checks for the other
\* rows are what they are for the batch without the epost > 1 rows.
C15_Check4OnlyForBoundRows ==
    task.pc = "returned" =>
        /\ \A i \in 1..Nsys :
               ~FLe(systems[i].epost, Num(1)) => ~ev.SNcheck4[i] /\ ~ev.SNsurvive[i]
        /\ ev.quad = {i \in 1..Nsys : FLe(systems[i].epost, Num(1))}
        /\ \A k \in 1..Len(Le1Positions) :
               /\ ev.SNcheck1[Le1Positions[k]] = WithoutGt1.SNcheck1[k]
               /\ ev.SNcheck2[Le1Positions[k]] = WithoutGt1.SNcheck2[k]
               /\ ev.SNcheck3[Le1Positions[k]] = WithoutGt1.SNcheck3[k]
               /\ ev.SNcheck4[Le1Positions[k]] = WithoutGt1.SNcheck4[k]
               /\ ev.SNsurvive[Le1Positions[k]] = WithoutGt1.SNsurvive[k]

\* C15 happens: a batch with a row with epost > 1, a row with epost
\* undefined or > 1 before a row with epost <= 1 that passes Check 4
C15_Witness ==
    /\ task.pc = "returned"
    /\ \E i \in 1..Nsys : systems[i].epost = Num(2)
    /\ \E i, j \in 1..Nsys :
           /\ i < j /\ ~FLe(systems[i].epost, Num(1))
           /\ FLe(systems[j].epost, Num(1)) /\ ev.SNcheck4[j]

(***************************************************************************)
(* utils.inspiral_time_peters (utils.py 78-124) *)
(***************************************************************************)

\* A quotient of two integers, kept unreduced
Quot(n, d) == [k |-> "quot", num |-> n, den |-> d]

\* lines 95-96: beta = (64./5.) * coef * m1 * m2 * (m1+m2), in units of coef
beta(m1, m2) == Quot(64 * m1 * m2 * (m1 + m2), 5)

\* line 102: a0**4 / (4*beta)
CircularTime(a0, b) == Quot(a0 * a0 * a0 * a0 * b.den, 4 * b.num)

\* line 104: c0, a function of a0 and e0 only
c0(a0, e0) == [k |-> "c0", a0 |-> a0, e0 |-> e0]

\* lines 109-116: the eccentricity at af.  eFinal is assigned in the af == 0
\* branch and in the branch of a successful integration; after a failed
\* integration the local name is left unbound.
eFinal(e0, a0, af, successful) ==
    IF af = 0 THEN Num(0)
    ELSE IF ~successful THEN Unbound
    ELSE [k |-> "ode", e0 |-> e0, a0 |-> a0, af |-> af]

\* lines 118-119: integrate.quad(time_integrand, eFinal, e0)
quad(lo, hi) == [k |-> "quad", lo |-> lo, hi |-> hi]

\* lines 121-124: integral * (12./19.) * c0**4. / beta
PetersTime(integral, c, b) == [k |-> "time", integral |-> integral, c0 |-> c, beta |-> b]

\* lines 78-124.  successful is what r.successful() answers after
\* r.integrate(af).  The result says how the call ended (a value returned or
\* an exception raised), what it printed and which solvers it ran.
inspiral_time_peters(a0, e0, m1, m2, af, successful) ==
    LET b  == beta(m1, m2)
        ef == eFinal(e0, a0, af, successful)
        ode    == IF af = 0 THEN {} ELSE {"ode"}
        failed == IF af # 0 /\ ~successful
                    THEN <<"ERROR, Integrator failed!">> ELSE <<>>
        t  == PetersTime(quad(ef, Num(e0)), c0(a0, e0), b)
    IN  IF e0 = 0
          THEN IF af # 0
                 THEN [kind |-> "return", value |-> Num(0), ran |-> {},
                       printed |-> <<"ERROR: doesn't work for circular binaries">>]
                 ELSE [kind |-> "return", value |-> CircularTime(a0, b),
                       ran |-> {}, printed |-> <<>>]
        ELSE IF ef = Unbound
          THEN [kind |-> "raise", value |-> "UnboundLocalError", ran |-> ode,
                printed |-> failed]
        ELSE [kind |-> "return",
              value |-> IF af = 0 THEN t ELSE <<t, Num(af), ef>>,
              ran |-> ode \cup {"quad"}, printed |-> failed]

\* The arguments of one call: a0 in AU, e0 in tenths, the masses in solar
\* masses, af in AU, and the answer of the ODE solver
PetersArgs ==
    [a0 : 1..3, e0 : {0, 5, 9}, m1 : 1..2, m2 : 1..2, af : 0..1,
     successful : BOOLEAN]

InitPeters ==
    /\ cfg = [fn |-> "inspiral_time_peters"]
    /\ systems \in PetersArgs
    /\ task = [pc |-> "called"]
    /\ ev = <<>>

InspiralTimePeters ==
    /\ task.pc = "called"
    /\ ev' = inspiral_time_peters(systems.a0, systems.e0, systems.m1,
                                  systems.m2, systems.af, systems.successful)
    /\ task' = [pc |-> "returned"]
    /\ UNCHANGED <<cfg, systems>>

SpecPeters == InitPeters /\ [][InspiralTimePeters]_vars

\* C16: inspiral_time_peters called for a circular orbit (e0 = 0) with a
\* non-zero af signals an error to its caller instead of returning a number;
\* with e0 = 0 and af = 0 it returns exactly a0^4/(4*beta) and runs neither
\* the ODE nor the quadrature.
C16_CircularOrbit ==
    (task.pc = "returned" /\ systems.e0 = 0) =>
        IF systems.af # 0
          THEN ev.kind = "raise"
          ELSE /\ ev.kind = "return"
               /\ ev.value = CircularTime(systems.a0, beta(systems.m1, systems.m2))
               /\ ev.ran = {}

Radius == 5

\* np.sqrt of a perfect square
Sqrt(n) == CHOOSE r \in 0..n : r * r = n

Sign(n) == IF n > 0 THEN 1 ELSE IF n < 0 THEN -1 ELSE 0

\* y/x as numpy divides: one number, which keeps the sign of the quotient and
\* not the signs of y and x; +-inf for x = 0 (num = +-1, den = 0), nan for 0/0
Divide(y, x) ==
    IF x = 0 THEN [num |-> Sign(y), den |-> 0]
    ELSE [num |-> Sign(x) * y, den |-> Sign(x) * x]

\* np.arctan(q): the angle of tangent q in [-pi/2, pi/2]; its cosine is
\* never negative
ArcTan(q) ==
    LET h == Sqrt(q.num * q.num + q.den * q.den)
    IN  [cos |-> (q.den * Radius) \div h, sin |-> (q.num * Radius) \div h]

\* lines 129-144: cartesian_to_cylindrical(x,y,z,vx,vy,vz) on coordinates
\* (the operator cartesian_to_cylindrical above is its call of system.py 533)
cartesian_to_cylindrical_xyz(x, y, z, vx, vy, vz) ==
    [R    |-> Sqrt(x * x + y * y),
     vR   |-> (x * vx + y * vy) \div Sqrt(x * x + y * y),
     Phi  |-> ArcTan(Divide(y, x)),
     vPhi |-> (x * vy - y * vx) \div (x * x + y * y),
     Z    |-> z,
     vZ   |-> vz]

\* lines 147-162: cylindrical_to_cartesian(R,Phi,Z,vR,vPhi,vZ)
cylindrical_to_cartesian(R, Phi, Z, vR, vPhi, vZ) ==
    [x  |-> (R * Phi.cos) \div Radius,
     vx |-> (vR * Phi.cos - R * Phi.sin * vPhi) \div Radius,
     y  |-> (R * Phi.sin) \div Radius,
     vy |-> (vR * Phi.sin + R * Phi.cos * vPhi) \div Radius,
     z  |-> Z,
     vz |-> vZ]

\* The points of the circle: both axes and all four quadrants
CirclePoints ==
    {p \in (-Radius..Radius) \X (-Radius..Radius) :
        p[1] * p[1] + p[2] * p[2] = Radius * Radius}

Velocities == {-(Radius * Radius), 0, Radius * Radius}

InitCoords ==
    /\ cfg = [fn |-> "cylindrical_to_cartesian(cartesian_to_cylindrical)"]
    /\ \E p \in CirclePoints, z, vz \in 0..1, vx, vy \in Velocities :
           systems = [x |-> p[1], y |-> p[2], z |-> z,
                      vx |-> vx, vy |-> vy, vz |-> vz]
    /\ task = [pc |-> "called"]
    /\ ev = <<>>

ToCylindrical ==
    /\ task.pc = "called"
    /\ ev' = cartesian_to_cylindrical_xyz(systems.x, systems.y, systems.z,
                                          systems.vx, systems.vy, systems.vz)
    /\ task' = [pc |-> "cylindrical"]
    /\ UNCHANGED <<cfg, systems>>

ToCartesian ==
    /\ task.pc = "cylindrical"
    /\ ev' = cylindrical_to_cartesian(ev.R, ev.Phi, ev.Z, ev.vR, ev.vPhi, ev.vZ)
    /\ task' = [pc |-> "returned"]
    /\ UNCHANGED <<cfg, systems>>

SpecCoords == InitCoords /\ [][ToCylindrical \/ ToCartesian]_vars

\* C18: cylindrical_to_cartesian applied to the result of
\* cartesian_to_cylindrical(x,y,z,vx,vy,vz) returns (x,y,z,vx,vy,vz) for every
\* input with (x,y) # (0,0), the points with x < 0 and with x = 0 included.
C18_RoundTrip ==
    task.pc = "returned" => ev = systems

(***************************************************************************)
(* convolve.normalize_weights (convolve.py 23-31).  The weights are a numpy *)
(* array (convolve.py 62, 157, 197) or a pandas Series (convolve.py 94);    *)
(* the two differ in how min() and max() treat NaN.                         *)
(***************************************************************************)

MaxLen == 3

\* a / b of two floats; 0/0 is NaN
FDiv(a, b) ==
    IF a.k # "num" \/ b.k # "num" THEN NaN
    ELSE IF b.v # 0 THEN Quot(a.v, b.v)
    ELSE IF a.v = 0 THEN NaN
    ELSE [k |-> "inf", v |-> Sign(a.v)]

\* the entries of w that are numbers
Numbers(w) == {w[i].v : i \in {j \in DOMAIN w : w[j].k = "num"}}

\* the entries min() and max() look at: ndarray.min() returns NaN as soon as
\* one entry is NaN, Series.min() skips the NaN entries
Reduce(kind, w, pick) ==
    IF Numbers(w) = {} THEN NaN
    ELSE IF kind = "ndarray" /\ \E i \in DOMAIN w : w[i] = NaN THEN NaN
    ELSE Num(pick)

WMin(kind, w) ==
    Reduce(kind, w, CHOOSE m \in Numbers(w) \cup {0} :
                        Numbers(w) # {} => (m \in Numbers(w) /\ \A n \in Numbers(w) : m <= n))

WMax(kind, w) ==
    Reduce(kind, w, CHOOSE m \in Numbers(w) \cup {0} :
                        Numbers(w) # {} => (m \in Numbers(w) /\ \A n \in Numbers(w) : m >= n))

\* line 29 without the subtraction of the minimum: weights / weights.max()
normalize_weights_ByMax(kind, w) ==
    [i \in DOMAIN w |-> FDiv(w[i], WMax(kind, w))]

\* line 29: (weights - weights.min()) / (weights.max() - weights.min())
normalize_weights(kind, w) ==
    [i \in DOMAIN w |->
        FDiv(FSub(w[i], WMin(kind, w)), FSub(WMax(kind, w), WMin(kind, w)))]

Weights == UNION {[1..n -> {Num(0), Num(1), Num(3), NaN}] : n \in 1..MaxLen}

InitWeights ==
    /\ cfg = [fn |-> "normalize_weights"]
    /\ \E kind \in {"ndarray", "Series"}, w \in Weights :
           systems = [kind |-> kind, weights |-> w]
    /\ task = [pc |-> "called"]
    /\ ev = <<>>

NormalizeWeights ==
    /\ task.pc = "called"
    /\ ev' = normalize_weights(systems.kind, systems.weights)
    /\ task' = [pc |-> "returned"]
    /\ UNCHANGED <<cfg, systems>>

SpecWeights == InitWeights /\ [][NormalizeWeights]_vars

\* the input holds two different values
NonConstant(w) == \E i, j \in DOMAIN w : w[i] # w[j]

\* every entry of the input is a number
Finite(w) == \A i \in DOMAIN w : w[i].k = "num"

\* a returned value lies in [0,1], equals 1.0, equals 0.0
InUnit(q) == q.k = "quot" /\ q.den > 0 /\ 0 <= q.num /\ q.num <= q.den

IsOne(q) == q.k = "quot" /\ q.num = q.den

IsZero(q) == q.k = "quot" /\ q.num = 0

\* the guarantee on the output for the input w
Normalised(w, out) ==
    /\ \A i \in DOMAIN out : InUnit(out[i])
    /\ \E i \in DOMAIN out : IsOne(out[i]) /\ w[i] = WMax("ndarray", w)
    /\ \E i \in DOMAIN out : IsZero(out[i]) /\ w[i] = WMin("ndarray", w)

\* C20 as stated: for every non-constant input, every value returned by
\* normalize_weights lies in [0,1], one equals 1.0 and one equals 0.0.
C20_Original ==
    (task.pc = "returned" /\ NonConstant(systems.weights)) =>
        /\ \A i \in DOMAIN ev : InUnit(ev[i])
        /\ \E i \in DOMAIN ev : IsOne(ev[i])
        /\ \E i \in DOMAIN ev : IsZero(ev[i])

\* C20: for every non-constant input without NaN, every value returned by
\* normalize_weights lies in [0,1], the value at the input maximum equals 1.0
\* and the value at the input minimum equals 0.0.
C20_FiniteWeightsNormalised ==
    (/\ task.pc = "returned"
     /\ NonConstant(systems.weights) /\ Finite(systems.weights)) =>
        Normalised(systems.weights, ev)

\* C20 happens: three different numbers, the middle one strictly inside (0,1)
C20_Witness ==
    /\ task.pc = "returned"
    /\ Finite(systems.weights) /\ Len(systems.weights) = 3
    /\ Cardinality(Numbers(systems.weights)) = 3
    /\ \E i \in DOMAIN ev : InUnit(ev[i]) /\ ~IsOne(ev[i]) /\ ~IsZero(ev[i])

\* the sum of the numerators of returned values, which share the denominator
\* weights.max() - weights.min()
RECURSIVE SumNum(_)
SumNum(out) == IF out = <<>> THEN 0 ELSE Head(out).num + SumNum(Tail(out))

\* C21: normalize_weights normalizes a set of weights such that the sum of all
\* returned weights is 1.0 (stated for the inputs it normalises at all: the
\* non-constant inputs without NaN).
C21_SumIsOne ==
    (/\ task.pc = "returned"
     /\ NonConstant(systems.weights) /\ Finite(systems.weights)) =>
        SumNum(ev) = ev[1].den

---------------------------------------------------------------------------
(* Properties of the steps of integrate_orbits, checked under Spec *)

IsFull(s) == s.kind = "full"

\* the full-interval integrations of the call so far (lines 601-606), in order
FullSteps == SelectSeq(task.steps, IsFull)

\* C22: the k-th full-interval integration of a call is that of epoch
\* t0 + k - 1 (none skipped, none repeated), it integrates exactly
\* times[tt+1] - times[tt], and its potential is selected by mode: index T-2
\* with fixed_potential, else the current epoch tt; the interpolated potential
\* of that index, or the prefix of the full potentials up to it.
C22_StepsFollowEpochs ==
    \A k \in 1..Len(FullSteps) :
        LET s == FullSteps[k]
        IN  /\ s.tt = cfg.t0 + k - 1
            /\ ToCgs(s.dt) = times[s.tt + 1] - times[s.tt]
            /\ s.pot.upto = IF cfg.fixed_potential THEN NEpochs - 2 ELSE s.tt
            /\ s.pot.kind = IF cfg.interp THEN "interpolated" ELSE "full"

\* C22 happens: a call returned after integrating every interval from the
\* first epoch on, the potential not held fixed
C22_Witness ==
    /\ task.pc = "returned"
    /\ cfg.t0 = 0 /\ ~cfg.fixed_potential
    /\ Len(FullSteps) = NEpochs - 1

\* the unit system the locals R, vR, vT, Z, vZ, Phi of a run are kept in
WorkingUnit == IF cfg.interp THEN "nat" ELSE "cgs"

\* line 533 on coordinates: the cylindrical state of (R, y=0, z=0, Vpx, Vpy,
\* Vpz) lies in the galactic plane at azimuth 0, whatever the velocity
StartsInPlane ==
    \A vx, vy \in Velocities, vz \in 0..1 :
        LET p == cartesian_to_cylindrical_xyz(Radius, 0, 0, vx, vy, vz)
        IN  p.R = Radius /\ p.Z = 0 /\ p.Phi = [cos |-> Radius, sin |-> 0]

\* the seed of every integration performed: that of the first pass is the
\* system's starting point, that of pass tt > t0 descends from it through the
\* full-interval integrations of t0..tt-1 and through nothing else
SeedsChain ==
    \A k \in 1..Len(task.steps) :
        LET s == task.steps[k]
            n == s.tt - cfg.t0
        IN  /\ s.seed.kin = task.kin
            /\ s.seed.unit = WorkingUnit
            /\ Len(s.seed.path) = n
            /\ \A j \in 1..n :
                   s.seed.path[j] = [dt |-> FullSteps[j].dt, pot |-> FullSteps[j].pot]

\* C23: the first step starts from the cylindrical state of (R, 0, 0, Vpx,
\* Vpy, Vpz), in the plane at azimuth 0; every pass after a full-interval
\* integration takes as its seed the final elements of that integration,
\* expressed in the working unit system; a partial merger integration never
\* seeds a later step.
C23_SeedsFromPreviousStep ==
    /\ StartsInPlane
    /\ SeedsChain
    /\ task.exit # "NameError544"

---------------------------------------------------------------------------
(* Properties of the merger_redz returned by integrate_orbits, checked under Spec *)

\* the inspiral threshold is crossed before the final epoch boundary times[T-1]
CrossesThreshold == task.Tinsp0 < times[NEpochs - 1] - times[cfg.t0]

\* C24: the merger_redz a call returns is NaN exactly when the system was
\* disrupted; it is 0 only if the call reached the final epoch boundary and
\* the inspiral threshold was never crossed; it is -1 only if the wall-clock
\* budget stopped the call before the final epoch boundary; in every other
\* case it is the merger redshift tage_to_z(times[t0] + Tinsp), a number that
\* is none of the sentinels.
C24_MergerRedzClassifies ==
    task.pc = "returned" =>
        /\ task.merger_redz = NaN <=> ~task.SNsurvive
        /\ task.merger_redz = Num(0) =>
              /\ task.exit = "break626" /\ task.tt = NEpochs - 2
              /\ ~CrossesThreshold /\ ~task.MERGED
        /\ task.merger_redz = Num(-1) =>
              /\ task.exit = "break639" /\ task.wall > Tint_max
              /\ task.tt < NEpochs - 2
        /\ task.merger_redz \notin {NaN, Num(0), Num(-1)} =>
              /\ task.merger_redz = MergerRedshift
              /\ CrossesThreshold /\ task.MERGED
              /\ task.exit \in {"break588", "break626"}

\* C24 happens: a call that recorded a merger and was then stopped by the
\* budget returned -1
C24_Witness ==
    /\ task.pc = "returned" /\ task.SNsurvive
    /\ task.MERGED /\ task.merger_redz = Num(-1)

---------------------------------------------------------------------------
(* Properties of the time column of the trajectory, checked under Spec *)

\* C25: with trajectory recording enabled, the time column is non-decreasing
\* from the first recorded sample to the last, inside every segment and
\* across the boundary of two consecutive segments, the final (merger,
\* exhaustion or timeout) segment included: no two segments overlap in time.
C25_TimeNonDecreasing ==
    cfg.save_traj =>
        /\ \A k \in 1..Len(task.traj) :
               task.traj[k].time.first <= task.traj[k].time.last
        /\ \A k \in 1..(Len(task.traj) - 1) :
               task.traj[k].time.last <= task.traj[k + 1].time.first

---------------------------------------------------------------------------
(* Properties of the shortened step of integrate_orbits, checked under Spec *)

IsMerger(s) == s.kind = "merger"

\* the integrations of the merger branch of the call so far (lines 566-574)
MergerSteps == SelectSeq(task.steps, IsMerger)

\* C26: for a surviving system with Tinsp >= 0, whenever the merger branch is
\* taken the shortened step dt_merge = Tinsp - T_elapsed satisfies
\* 0 <= dt_merge < dt, dt the current epoch interval; and at the start of
\* every step, as long as no merger is flagged, T_elapsed equals
\* times[tt] - times[t0] and does not exceed Tinsp.
C26_ShortenedStepInsideInterval ==
    (task.SNsurvive /\ task.Tinsp0 >= 0) =>
        /\ \A k \in 1..Len(MergerSteps) :
               LET s == MergerSteps[k]
               IN  /\ 0 <= s.dt
                   /\ ToCgs(s.dt) < times[s.tt + 1] - times[s.tt]
        /\ (task.pc = "inner" /\ ~task.INSP_FLAG) =>
               /\ ToCgs(task.T_elapsed) = times[task.tt] - times[cfg.t0]
               /\ task.T_elapsed <= task.Tinsp

\* C26 happens: the merger branch was taken in a step after the first, with
\* time already elapsed and a shortened step of positive length
C26_Witness ==
    /\ task.SNsurvive /\ Len(MergerSteps) = 1
    /\ MergerSteps[1].tt > cfg.t0 /\ MergerSteps[1].dt > 0

---------------------------------------------------------------------------
(* Two calls of integrate_orbits that differ only in Tinsp: SpecPair.  The   *)
(* integrator is deterministic: the full-interval integration of epoch tt    *)
(* takes the same seconds in both calls (cfg.cost[tt]).  The integration of  *)
(* the merger branch, which only a call that crosses its threshold performs, *)
(* takes its own seconds.  The generator of the projection starts at the     *)
(* same position in both calls.                                              *)
(***************************************************************************)

\* every way one step of a call can go when the full integrations take the
\* seconds of c.cost
PairSucc(c, st) ==
    CASE st.pc = "outer" -> {OuterBody(c, st)}
      [] st.pc = "inner" -> {InnerBody(c, st, cm, c.cost[st.tt]) : cm \in Costs}
      [] st.pc = "post"  -> {FinishBody(c, st)}
      [] OTHER -> {}

\* the configurations of a pair: the merger-stop flag disabled
PairConfigs ==
    [ t0 : 0..(NEpochs - 1), Tinsp_lim : {FALSE}, interp : BOOLEAN,
      fixed_potential : BOOLEAN, save_traj : {FALSE},
      cost : [0..(NEpochs - 1) -> Costs] ]

InitPair ==
    /\ cfg \in PairConfigs
    /\ task = IdleTask
    /\ \E a, b \in TinspValues :
           systems = <<[idx |-> 0, SNsurvive |-> TRUE, Tinsp |-> a, kin |-> 1],
                       [idx |-> 0, SNsurvive |-> TRUE, Tinsp |-> b, kin |-> 1]>>
    /\ ev = <<InitTask(systems[1], 0), InitTask(systems[2], 0)>>

\* one step of call r; the second call is made after the first has ended
Advance(r) ==
    /\ r = 1 \/ ev[1].pc \in {"returned", "raised"}
    /\ \E st \in PairSucc(cfg, ev[r]) : ev' = [ev EXCEPT ![r] = st]
    /\ UNCHANGED <<cfg, task, systems>>

NextPair == \E r \in Runs : Advance(r)

SpecPair == InitPair /\ [][NextPair]_vars

BothReturned == ev[1].pc = "returned" /\ ev[2].pc = "returned"

\* the two calls returned the same X, Y, Z, vX, vY, vZ and R_offset after the
\* same full-interval integrations from the same seeds
SameOrbit ==
    /\ ev[1].out.nan = ev[2].out.nan
    /\ ev[1].out.pt = ev[2].out.pt
    /\ SelectSeq(ev[1].steps, IsFull) = SelectSeq(ev[2].steps, IsFull)

\* C27 as stated: with Tinsp_lim=False, two calls that differ only in Tinsp
\* return the same position, velocity and true offset after the same sequence
\* of epoch steps and seeds.
C27_Original == BothReturned => SameOrbit

\* C27 as amended: the same, provided the wall-clock budget stopped neither
\* call.
C27_OrbitIndependentOfTinsp ==
    (BothReturned /\ ev[1].exit # "break639" /\ ev[2].exit # "break639") =>
        SameOrbit

\* C27 happens: one call crossed its threshold in its first step and the
\* other never did, and both went through more than one interval
C27_Witness ==
    /\ BothReturned /\ ev[1].exit = "break626" /\ ev[2].exit = "break626"
    /\ ev[1].MERGED /\ ev[1].tmerge = cfg.t0 /\ ~ev[2].MERGED
    /\ ev[1].nfull > 1
    /\ ev[1].merger_redz # ev[2].merger_redz

====
